---- MODULE Spec2Model ----
(***************************************************************************)
(* Model of the JX automation scripts: the guarded scheduler               *)
(* (scheduler.py), the bound task bodies (auto_checkin.py,                 *)
(* auto_daily_report.py), the shared helpers of common.py                  *)
(* (run_with_retries, login_with_retry, solve_captcha, send_wxpush,        *)
(* send_wxpusher), the trigger clock and the daily-report submission.      *)
(***************************************************************************)
EXTENDS Integers, Sequences, FiniteSets, TLC

\* ---------------------------------------------------------------- bounds
\* number of trigger firings followed in one behaviour of the scheduler
MaxFirings == 2

\* largest max_attempts handed to run_with_retries
MaxRetryAttempts == 3
\* largest delay_seconds handed to run_with_retries
MaxDelaySeconds == 4
\* largest backoff_factor handed to run_with_retries, in halves (4 is 2.0)
MaxFactorHalves == 4

\* largest max_attempts handed to login_with_retry
MaxLoginAttempts == 3
\* largest total_timeout handed to login_with_retry, in clock units
MaxLoginTimeout == 4
\* longest time one awaited step of login_with_retry takes, in clock units
MaxStepTime == 2

\* largest max_attempts handed to solve_captcha
MaxCaptchaAttempts == 3
\* longest text the classifier returns
MaxRawLen == 5

\* largest max_retries handed to send_wxpush and send_wxpusher
MaxNotifyRetries == 3

\* largest distance, in hours, of the host's timezone from UTC
MaxHostOffset == 8
\* minutes of clock time between two polls of the schedule that are followed
PollMinutes == 20

\* number of invocations of the daily-report task followed on one day
MaxReportRuns == 3

VARIABLES
    alive,      \* the scheduler process (its event loop) is running
    job_lock,   \* scheduler.job_lock: the asyncio.Lock is held
    creds,      \* CHECKIN_USERNAME and CHECKIN_PASSWORD are both set
    firings,    \* the run_guarded coroutines created so far, oldest first
    rr,         \* one call of common.run_with_retries: arguments and locals
    ls,         \* one call of common.login_with_retry: arguments and locals
    cs,         \* one call of common.solve_captcha: arguments and locals
    nd,         \* one call of a notification function: arguments and locals
    tz,         \* the host clock and the jobs of the schedule run at a poll
    dr          \* the daily-report task and the portal's record of the day

schedVars == <<alive, job_lock, creds, firings>>

\* the state of the calls of the helpers of common.py
libVars == <<rr, ls, cs, nd, tz, dr>>

vars == <<alive, job_lock, creds, firings, rr, ls, cs, nd, tz, dr>>

\* ------------------------------------------------------------- scheduler

\* the three jobs registered by schedule_jobs
Triggers == {"checkin_am", "checkin_pm", "daily_report"}

\* the coro_func each trigger is bound to
BoundTask(name) == IF name = "daily_report" THEN "run_daily_report" ELSE "run_checkin"

\* positions of a run_guarded coroutine at which it holds job_lock and is
\* suspended inside coro_func
BodyPcs == {"launch", "login_goto", "login_try", "login_check", "login_wait",
            "act", "closing", "notify"}

InBody(f) == firings[f].pc \in BodyPcs

Running == {f \in 1..Len(firings) : InBody(f)}

\* the event loop starts tasks in the order call_soon_threadsafe queued them
NextToStart(f) ==
    /\ f \in 1..Len(firings)
    /\ firings[f].pc = "queued"
    /\ \A g \in 1..(f - 1) : firings[g].pc # "queued"

SetFiring(f, pc, success, out) ==
    firings' = [firings EXCEPT ![f] = [@ EXCEPT !.pc = pc, !.success = success,
                                                !.out = out]]

\* the poll cycle (call of schedule.run_pending) of the newest firing
CurrentCycle == IF firings = <<>> THEN 0 ELSE firings[Len(firings)].cycle

\* the firings created by poll cycle c
CycleMembers(c) == {f \in 1..Len(firings) : firings[f].cycle = c}

\* run_pending is synchronous: while it creates the coroutines of the due
\* jobs none of them has started
PollOpen ==
    /\ firings # <<>>
    /\ \A f \in CycleMembers(CurrentCycle) : firings[f].pc = "queued"

\* what send_notification met: settings missing, or one of the outcomes
\* of its single post
NotifyResults == {"unconfigured", "ok", "rejected", "raise"}

\* mutation: a fault of the sink leaves send_notification and main()
MainOutcome_SinkFault(task, success, sink) ==
    IF sink = "raise" THEN "fault"
    ELSE IF success THEN "ok"
    ELSE IF task = "run_daily_report" THEN "exit" ELSE "failed"

\* how main() ends after run() returned success and send_notification met
\* sink: auto_checkin.main returns, auto_daily_report.main returns on
\* success and calls sys.exit(1) on failure
MainOutcome(task, success, sink) ==
    IF success THEN "ok"
    ELSE IF task = "run_daily_report" THEN "exit" ELSE "failed"

\* mutation: the finally clause of run() is skipped when run() failed
BrowserAfterRun_LeftOnFailure(open, success) == open /\ ~success

\* the finally clause of run(): `if self.browser: await self.browser.close()`
\* on every path out of the try block
BrowserAfterRun(open, success) == FALSE

\* mutation: the notification is sent after run_guarded released the lock
FinishEvents_NotifyLast == <<"release", "notify">>

\* main() calls send_notification and returns (or exits) into run_guarded,
\* which leaves `async with job_lock`
FinishEvents == <<"notify", "release">>

\* mutation: the check-in is attempted at every hour
InCheckinWindow_AllDay(hour) == TRUE

\* auto_checkin.main: the Beijing hours in which a check-in is attempted
InCheckinWindow(hour) == (6 <= hour /\ hour < 12) \/ (12 <= hour /\ hour < 24)

\* auto_checkin.main: checkin_type by the Beijing hour, or the return of
\* the else branch
CheckinType(hour) ==
    IF 6 <= hour /\ hour < 12 THEN "morning"
    ELSE IF 12 <= hour /\ hour < 24 THEN "evening"
    ELSE "outside"

\* mutation: run_guarded suspends between the held-check and `async with`,
\* and another task holds the lock when it resumes
HeldAtAcquire_AfterYield(heldAtCheck) == TRUE

\* job_lock.locked() when `async with job_lock` is reached: run_guarded has
\* no await between the check and the acquisition, so it is what the check
\* read
HeldAtAcquire(heldAtCheck) == heldAtCheck

\* asyncio.Lock.acquire returns without suspending when the lock is free;
\* otherwise the caller is queued as a waiter
AcquireNow(held) == ~held

\* mutation: the held-check of run_guarded is missing
GuardHeld_Unchecked == FALSE

\* job_lock.locked() as read by run_guarded
GuardHeld == job_lock

\* the firing record after run_guarded passed the held-check and reached
\* `async with job_lock`: inside the lock with these fields, or a waiter
Acquired(fr, pc, out, kind, events) ==
    IF AcquireNow(HeldAtAcquire(GuardHeld))
    THEN [fr EXCEPT !.pc = pc, !.out = out, !.kind = kind, !.events = events]
    ELSE [fr EXCEPT !.pc = "waiting"]

\* mutation: the lock is released after the await only, not on a fault
GuardAfterExit_KeptOnFault(out) == out = "fault"

\* job_lock after run_guarded has left `async with job_lock`, whichever way
\* coro_func ended (out): __aexit__ releases on return and on exception
GuardAfterExit(out) == FALSE

\* a job of the schedule library is due in run_pending: the lambda creates
\* the run_guarded coroutine and hands it to the loop. The jobs due in one
\* run_pending are created before any of them starts; the next run_pending
\* is 30 seconds later, when every task of this one has started
Fire(name) ==
    /\ alive
    /\ Len(firings) < MaxFirings
    /\ PollOpen \/ \A f \in 1..Len(firings) : firings[f].pc # "queued"
    /\ PollOpen => \A f \in CycleMembers(CurrentCycle) : firings[f].name # name
    /\ firings' = Append(firings,
          [name |-> name, pc |-> "queued", success |-> FALSE, out |-> "none",
           cycle |-> IF PollOpen THEN CurrentCycle ELSE CurrentCycle + 1,
           browser |-> FALSE, sink |-> "none", events |-> <<>>,
           kind |-> "none"])
    /\ UNCHANGED <<alive, job_lock, creds, libVars>>

\* mutation: the early return passes through a release of the lock
RunGuardedSkip_Releases(f) ==
    /\ alive
    /\ NextToStart(f)
    /\ GuardHeld
    /\ SetFiring(f, "skipped", FALSE, "skipped")
    /\ job_lock' = FALSE
    /\ UNCHANGED <<alive, creds, libVars>>

\* run_guarded finds the lock held: log and return
RunGuardedSkip(f) ==
    /\ alive
    /\ NextToStart(f)
    /\ GuardHeld
    /\ SetFiring(f, "skipped", FALSE, "skipped")
    /\ UNCHANGED <<alive, job_lock, creds, libVars>>

\* run_guarded takes the lock and coro_func raises before its first
\* suspension (the import of the task module fails): except, finally, release
RunGuardedFault(f) ==
    /\ alive
    /\ NextToStart(f)
    /\ ~GuardHeld
    /\ firings' = [firings EXCEPT ![f] =
           Acquired(@, "done", "fault", "none", <<"acquire", "release">>)]
    /\ job_lock' = GuardAfterExit("fault")
    /\ UNCHANGED <<alive, creds, libVars>>

\* run_guarded takes the lock and main() returns before its first
\* suspension: credentials missing, or check-in outside its hours
RunGuardedNoop(f) ==
    /\ alive
    /\ NextToStart(f)
    /\ ~GuardHeld
    /\ \E hour \in 0..23 :
          /\ \/ ~creds
             \/ BoundTask(firings[f].name) = "run_checkin" /\ ~InCheckinWindow(hour)
          /\ firings' = [firings EXCEPT ![f] =
                 Acquired(@, "done", "noop",
                          IF ~creds THEN "none" ELSE CheckinType(hour),
                          <<"acquire", "release">>)]
    /\ job_lock' = GuardAfterExit("noop")
    /\ UNCHANGED <<alive, creds, libVars>>

\* run_guarded takes the lock and main() reaches run(): the coroutine
\* suspends on the start of playwright with the lock held
RunGuardedEnter(f) ==
    /\ alive
    /\ NextToStart(f)
    /\ ~GuardHeld
    /\ creds
    /\ \E hour \in 0..23 :
          /\ BoundTask(firings[f].name) = "run_checkin" => InCheckinWindow(hour)
          /\ firings' = [firings EXCEPT ![f] =
                 Acquired(@, "launch", "none",
                          IF BoundTask(firings[f].name) = "run_checkin"
                          THEN CheckinType(hour) ELSE "report",
                          <<"acquire">>)]
    /\ job_lock' = TRUE
    /\ UNCHANGED <<alive, creds, libVars>>

\* run(): playwright start, browser launch, new context, new page; a fault
\* goes to the except clause of run(), which returns False through finally,
\* with the browser launched (opened) or not
Launch(f) ==
    /\ alive
    /\ f \in 1..Len(firings)
    /\ firings[f].pc = "launch"
    /\ \E ok, opened \in BOOLEAN :
          /\ ok => opened
          /\ firings' = [firings EXCEPT ![f] =
                 [@ EXCEPT !.pc = IF ok THEN "login_goto" ELSE "closing",
                           !.browser = opened]]
    /\ UNCHANGED <<alive, job_lock, creds, libVars>>

\* login_unlimited: page.goto; a fault here is the only way the login
\* returns False
LoginGoto(f) ==
    /\ alive
    /\ f \in 1..Len(firings)
    /\ firings[f].pc = "login_goto"
    /\ \E ok \in BOOLEAN :
          SetFiring(f, IF ok THEN "login_try" ELSE "closing", FALSE, "none")
    /\ UNCHANGED <<alive, job_lock, creds, libVars>>

\* login_unlimited, one pass of `while True`: fill the form and solve the
\* captcha; an empty captcha or a fault leads to the next pass
LoginTry(f) ==
    /\ alive
    /\ f \in 1..Len(firings)
    /\ firings[f].pc = "login_try"
    /\ \E submitted \in BOOLEAN :
          SetFiring(f, IF submitted THEN "login_check" ELSE "login_wait", FALSE, "none")
    /\ UNCHANGED <<alive, job_lock, creds, libVars>>

\* login_unlimited: after the submit, compare page.url with login_url
LoginCheck(f) ==
    /\ alive
    /\ f \in 1..Len(firings)
    /\ firings[f].pc = "login_check"
    /\ \E urlChanged \in BOOLEAN :
          SetFiring(f, IF urlChanged THEN "act" ELSE "login_wait", FALSE, "none")
    /\ UNCHANGED <<alive, job_lock, creds, libVars>>

\* login_unlimited: the sleep (or reload) that precedes the next pass
LoginWait(f) ==
    /\ alive
    /\ f \in 1..Len(firings)
    /\ firings[f].pc = "login_wait"
    /\ SetFiring(f, "login_try", FALSE, "none")
    /\ UNCHANGED <<alive, job_lock, creds, libVars>>

\* do_checkin / submit_daily_report: returns a boolean, never raises
Act(f) ==
    /\ alive
    /\ f \in 1..Len(firings)
    /\ firings[f].pc = "act"
    /\ \E success \in BOOLEAN : SetFiring(f, "closing", success, "none")
    /\ UNCHANGED <<alive, job_lock, creds, libVars>>

\* the finally clause of run(): sleep, browser.close(), playwright.stop();
\* run() has returned to main() when the last of them completes
Close(f) ==
    /\ alive
    /\ f \in 1..Len(firings)
    /\ firings[f].pc = "closing"
    /\ firings' = [firings EXCEPT ![f] =
           [@ EXCEPT !.pc = "notify",
                     !.browser = BrowserAfterRun(firings[f].browser, firings[f].success),
                     !.events = Append(@, "finished")]]
    /\ UNCHANGED <<alive, job_lock, creds, libVars>>

\* main() sends the notification (a synchronous requests.post, or nothing
\* when the settings are missing) and returns; run_guarded leaves
\* `async with job_lock`
FinishReturn(f) ==
    /\ alive
    /\ f \in 1..Len(firings)
    /\ firings[f].pc = "notify"
    /\ \E sink \in NotifyResults :
          LET out == MainOutcome(BoundTask(firings[f].name), firings[f].success, sink)
          IN  /\ out # "exit"
              /\ firings' = [firings EXCEPT ![f] =
                     [@ EXCEPT !.pc = "done", !.out = out, !.sink = sink,
                               !.events = @ \o FinishEvents]]
              /\ job_lock' = GuardAfterExit(out)
    /\ UNCHANGED <<alive, creds, libVars>>

\* auto_daily_report.main after a failed run(): notification, then
\* sys.exit(1). SystemExit is not an Exception: `async with` releases the
\* lock, the task re-raises it into the event loop and asyncio.run ends the
\* process
FinishExit(f) ==
    /\ alive
    /\ f \in 1..Len(firings)
    /\ firings[f].pc = "notify"
    /\ \E sink \in NotifyResults :
          /\ MainOutcome(BoundTask(firings[f].name), firings[f].success, sink) = "exit"
          /\ firings' = [firings EXCEPT ![f] =
                 [@ EXCEPT !.pc = "done", !.out = "exit", !.sink = sink,
                           !.events = @ \o FinishEvents]]
    /\ job_lock' = GuardAfterExit("exit")
    /\ alive' = FALSE
    /\ UNCHANGED <<creds, libVars>>

\* ------------------------------------------------- run_with_retries
\* what one awaited task_coro_factory() does: return True, return False,
\* or raise an Exception
TaskOutcomes == {"true", "false", "raise"}

Max(a, b) == IF a >= b THEN a ELSE b

RECURSIVE Pow(_, _)
\* b ** e for an integer e >= 0 (0 ** 0 is 1, as in Python)
Pow(b, e) == IF e = 0 THEN 1 ELSE b * Pow(b, e - 1)

\* int(num / den) for den > 0: truncation towards zero
IntTrunc(num, den) ==
    IF num >= 0 THEN num \div den ELSE -((-num) \div den)

\* mutation: the floor of one second is missing
WaitSeconds_NoFloor(delay_seconds, factor_halves, attempt) ==
    IntTrunc(delay_seconds * Pow(factor_halves, attempt - 1), Pow(2, attempt - 1))

\* wait_seconds = max(1, int(delay_seconds * backoff_factor ** (attempt - 1)))
\* with backoff_factor = factor_halves / 2
WaitSeconds(delay_seconds, factor_halves, attempt) ==
    Max(1, IntTrunc(delay_seconds * Pow(factor_halves, attempt - 1),
                    Pow(2, attempt - 1)))

\* mutation: the loop stops one attempt late
RetryExhausted_Late(attempt, attempts) == attempt > attempts

\* `if attempt >= attempts: break`
RetryExhausted(attempt, attempts) == attempt >= attempts

\* mutation: a success reports the attempt budget, not the attempt
RetrySuccessResult_Budget(attempt, attempts) == <<TRUE, attempts>>

\* `return True, attempt`
RetrySuccessResult(attempt, attempts) == <<TRUE, attempt>>

\* mutation: the fault of the task leaves run_with_retries
RetryAfterCall_Propagates(r, o) ==
    IF o = "raise"
    THEN [r EXCEPT !.pc = "raised", !.calls = r.calls + 1,
                   !.outs = Append(r.outs, o)]
    ELSE IF o = "true"
    THEN [r EXCEPT !.pc = "returned", !.calls = r.calls + 1,
                   !.outs = Append(r.outs, o),
                   !.result = RetrySuccessResult(r.attempt, r.attempts)]
    ELSE IF RetryExhausted(r.attempt, r.attempts)
    THEN [r EXCEPT !.pc = "returned", !.calls = r.calls + 1,
                   !.outs = Append(r.outs, o),
                   !.result = <<FALSE, r.attempts>>]
    ELSE [r EXCEPT !.pc = "sleep", !.calls = r.calls + 1,
                   !.outs = Append(r.outs, o),
                   !.waits = Append(r.waits,
                       WaitSeconds(r.delay_seconds, r.factor_halves, r.attempt))]

\* mutation: the sleep precedes the test of exhaustion, so a wait follows
\* the last failed attempt as well
RetryAfterCall_SleepsAfterLast(r, o) ==
    LET called == [r EXCEPT !.calls = r.calls + 1, !.outs = Append(r.outs, o)]
        waited == Append(r.waits,
                         WaitSeconds(r.delay_seconds, r.factor_halves, r.attempt))
    IN  IF o = "true"
        THEN [called EXCEPT !.pc = "returned",
                            !.result = RetrySuccessResult(r.attempt, r.attempts)]
        ELSE IF RetryExhausted(r.attempt, r.attempts)
        THEN [called EXCEPT !.pc = "returned", !.waits = waited,
                            !.result = <<FALSE, r.attempts>>]
        ELSE [called EXCEPT !.pc = "sleep", !.waits = waited]

\* the body of the for loop from the awaited task (outcome o) to the
\* return, the break or the start of the sleep
RetryAfterCall(r, o) ==
    LET success == (o = "true")        \* except Exception: success = False
        called  == [r EXCEPT !.calls = r.calls + 1, !.outs = Append(r.outs, o)]
    IN  IF success
        THEN [called EXCEPT !.pc = "returned",
                            !.result = RetrySuccessResult(r.attempt, r.attempts)]
        ELSE IF RetryExhausted(r.attempt, r.attempts)
        THEN [called EXCEPT !.pc = "returned",
                            !.result = <<FALSE, r.attempts>>]
        ELSE [called EXCEPT !.pc = "sleep",
                            !.waits = Append(r.waits,
                                WaitSeconds(r.delay_seconds, r.factor_halves, r.attempt))]

\* no call of run_with_retries is in progress
RetryIdle ==
    [pc |-> "idle", max_attempts |-> 1, delay_seconds |-> 1, factor_halves |-> 2,
     attempts |-> 0, attempt |-> 0, calls |-> 0, outs |-> <<>>, waits |-> <<>>,
     result |-> <<FALSE, 0>>]

\* run_with_retries has been called with these arguments
RetryEntry(max_attempts, delay_seconds, factor_halves) ==
    [RetryIdle EXCEPT !.pc = "entry", !.max_attempts = max_attempts,
                      !.delay_seconds = delay_seconds,
                      !.factor_halves = factor_halves]

\* attempts = max(1, max_attempts); the for loop starts at attempt 1
RetryStart ==
    /\ rr.pc = "entry"
    /\ rr' = [rr EXCEPT !.pc = "call", !.attempts = Max(1, rr.max_attempts),
                        !.attempt = 1]
    /\ UNCHANGED <<schedVars, ls, cs, nd, tz, dr>>

\* await task_coro_factory() and the rest of the loop body
RetryInvoke ==
    /\ rr.pc = "call"
    /\ \E o \in TaskOutcomes : rr' = RetryAfterCall(rr, o)
    /\ UNCHANGED <<schedVars, ls, cs, nd, tz, dr>>

\* await asyncio.sleep(wait_seconds) ends; the for loop advances
RetrySleep ==
    /\ rr.pc = "sleep"
    /\ rr' = [rr EXCEPT !.pc = "call", !.attempt = rr.attempt + 1]
    /\ UNCHANGED <<schedVars, ls, cs, nd, tz, dr>>

\* ------------------------------------------------- login_with_retry
\* what one pass of the while loop of login_with_retry meets: the location
\* changed after the submit, it did not, solve_captcha returned "", or a
\* page action raised
AttemptOutcomes == {"url_changed", "url_same", "captcha_empty", "fault"}

\* where in the pass a fault is raised: waiting for or filling the form,
\* inside solve_captcha, in the reload after an empty captcha, or while
\* submitting the form
FaultStages == {"form", "captcha", "reload", "submit"}

\* the login_url argument, as a location
LoginUrl == "login_url"

\* page.url at the end of a pass that met outcome o
PageUrl(o) == IF o = "url_changed" THEN "other_url" ELSE LoginUrl

\* mutation: one of the two budgets is enough to go on
LoginLoopPermits_Either(l) ==
    l.attempt < l.max_attempts \/ l.elapsed < l.total_timeout

\* mutation: the loop tests the attempt counter only
LoginLoopPermits_AttemptsOnly(l) == l.attempt < l.max_attempts

\* `while attempt < max_attempts and (time.monotonic() - start_ts) < total_timeout`
LoginLoopPermits(l) ==
    l.attempt < l.max_attempts /\ l.elapsed < l.total_timeout

\* mutation: a submitted form counts as a login
LocationChanged_Always(url) == TRUE

\* `if page.url != login_url`
LocationChanged(url) == url # LoginUrl

\* the pass got as far as filling user name and password
FilledForm(o, stage) == o # "fault" \/ stage # "form"

\* the pass called solve_captcha
CalledSolver(o, stage) == o # "fault" \/ stage # "form"

\* the pass called page.reload: solve_captcha had returned ""
Reloaded(o, stage) == o = "captcha_empty" \/ (o = "fault" /\ stage = "reload")

\* mutation: an empty captcha text is submitted like any other
Submitted_EvenEmpty(o) == o \in {"url_changed", "url_same", "captcha_empty"}

\* the pass filled the captcha and clicked login, and reached the url test
Submitted(o) == o \in {"url_changed", "url_same"}

\* no call of login_with_retry is in progress
LoginIdle ==
    [pc |-> "idle", max_attempts |-> 0, total_timeout |-> 0, attempt |-> 0,
     elapsed |-> 0, loaded_at |-> 0, last |-> "none", result |-> FALSE,
     url |-> "blank", gotos |-> 0, fills |-> 0, solves |-> 0, submits |-> 0,
     reloads |-> 0, faults |-> 0, same_d |-> 0, all_same |-> TRUE]

\* login_with_retry has been called: start_ts is taken, attempt = 0
LoginEntry(max_attempts, total_timeout) ==
    [LoginIdle EXCEPT !.pc = "entry", !.max_attempts = max_attempts,
                      !.total_timeout = total_timeout]

\* mutation: a fault of the navigation is swallowed and the loop is entered
LoginAfterGoto_Swallowed(l, ok, d) ==
    IF ok
    THEN [l EXCEPT !.pc = "loop", !.elapsed = l.elapsed + d, !.gotos = l.gotos + 1,
                   !.loaded_at = l.elapsed + d, !.url = LoginUrl]
    ELSE [l EXCEPT !.pc = "loop", !.elapsed = l.elapsed + d, !.gotos = l.gotos + 1,
                   !.last = "goto_fault"]

\* the try around page.goto and the sleep after it, taking d clock units
LoginAfterGoto(l, ok, d) ==
    IF ok
    THEN [l EXCEPT !.pc = "loop", !.elapsed = l.elapsed + d, !.gotos = l.gotos + 1,
                   !.loaded_at = l.elapsed + d, !.url = LoginUrl]
    ELSE [l EXCEPT !.pc = "returned", !.elapsed = l.elapsed + d,
                   !.gotos = l.gotos + 1, !.last = "goto_fault", !.result = FALSE]

\* the locals and the counts of page actions after a pass that met outcome
\* o (a fault: at stage) and took d clock units, before the verdict
LoginPassDone(l, o, stage, d) ==
    [l EXCEPT !.elapsed = l.elapsed + d,
              !.last = o,
              !.url = PageUrl(o),
              !.fills = l.fills + (IF FilledForm(o, stage) THEN 1 ELSE 0),
              !.solves = l.solves + (IF CalledSolver(o, stage) THEN 1 ELSE 0),
              !.reloads = l.reloads + (IF Reloaded(o, stage) THEN 1 ELSE 0),
              !.submits = l.submits + (IF Submitted(o) THEN 1 ELSE 0),
              !.faults = l.faults + (IF o = "fault" THEN 1 ELSE 0),
              !.same_d = IF l.same_d = 0 \/ l.same_d = d THEN d ELSE -1,
              !.all_same = l.all_same /\ o = "url_same"]

\* mutation: a fault of a page action leaves login_with_retry
LoginAfterAttempt_Propagates(l, o, stage, d) ==
    LET done == LoginPassDone(l, o, stage, d)
    IN  IF o = "fault"
        THEN [done EXCEPT !.pc = "raised"]
        ELSE IF Submitted(o) /\ LocationChanged(done.url)
        THEN [done EXCEPT !.pc = "returned", !.result = TRUE]
        ELSE [done EXCEPT !.pc = "loop"]

\* the try block of one pass: return True when the location changed after
\* the submit; otherwise (unchanged, empty captcha, except Exception) back
\* to the loop test
LoginAfterAttempt(l, o, stage, d) ==
    LET done == LoginPassDone(l, o, stage, d)
    IN  IF Submitted(o) /\ LocationChanged(done.url)
        THEN [done EXCEPT !.pc = "returned", !.result = TRUE]
        ELSE [done EXCEPT !.pc = "loop"]

\* page.goto(login_url) and the sleep after it; a fault returns False
LoginWithRetryGoto ==
    /\ ls.pc = "entry"
    /\ \E d \in 1..MaxStepTime, ok \in BOOLEAN : ls' = LoginAfterGoto(ls, ok, d)
    /\ UNCHANGED <<schedVars, rr, cs, nd, tz, dr>>

\* the loop condition holds: attempt += 1 and the pass begins
LoginWithRetryBegin ==
    /\ ls.pc = "loop"
    /\ LoginLoopPermits(ls)
    /\ ls' = [ls EXCEPT !.pc = "attempt", !.attempt = ls.attempt + 1]
    /\ UNCHANGED <<schedVars, rr, cs, nd, tz, dr>>

\* one pass of the loop body, with what it meets and the time it takes
LoginWithRetryAttempt ==
    /\ ls.pc = "attempt"
    /\ \E o \in AttemptOutcomes, stage \in FaultStages, d \in 1..MaxStepTime :
          ls' = LoginAfterAttempt(ls, o, stage, d)
    /\ UNCHANGED <<schedVars, rr, cs, nd, tz, dr>>

\* the loop condition fails: log and return False
LoginWithRetryExhausted ==
    /\ ls.pc = "loop"
    /\ ~LoginLoopPermits(ls)
    /\ ls' = [ls EXCEPT !.pc = "returned", !.result = FALSE]
    /\ UNCHANGED <<schedVars, rr, cs, nd, tz, dr>>

\* ---------------------------------------------------- solve_captcha
\* the characters the classifier of the model writes
Chars == {"1", "7", "a"}

\* ch.isdigit()
IsDigit(ch) == ch \in {"0", "1", "2", "3", "4", "5", "6", "7", "8", "9"}

\* the texts ocr.classification may return
RawTexts == UNION {[1..n -> Chars] : n \in 0..MaxRawLen}

\* the length a captcha text must have
CaptchaLength == 4

\* mutation: the classifier's text is used unfiltered
CaptchaText_Raw(raw) == raw

\* "".join(ch for ch in raw_text if ch.isdigit())
CaptchaText(raw) == SelectSeq(raw, IsDigit)

\* `if len(captcha_text) == 4`
CaptchaAccepted(text) == Len(text) = CaptchaLength

\* mutation: the loop runs once more than max_attempts
CaptchaLoopContinues_OneMore(c) == c.attempt <= c.max_attempts

\* `for attempt in range(max_attempts)`: another iteration is left
CaptchaLoopContinues(c) == c.attempt < c.max_attempts

\* mutation: the last rejected attempt does not click the image
Refreshes_NotOnLast(c) == IF c.attempt < c.max_attempts THEN 1 ELSE 0

\* calls of captcha_img.click() after one rejected text
Refreshes(c) == 1

\* what acquiring the image meets: a screenshot; no screenshot but a
\* data-URI src; no element; no screenshot and a src that is missing or
\* not a data-URI; query_selector raises; get_attribute raises; the
\* data-URI cannot be split or decoded
AcquireOutcomes == {"screenshot", "src_data", "element_missing", "src_invalid",
                    "query_raised", "src_raised", "decode_raised"}

\* the ways solve_captcha returns "" without a classifier result
AbortCauses == {"selector_timeout", "element_missing", "src_invalid", "no_ocr"}

\* no call of solve_captcha is in progress
CaptchaIdle ==
    [pc |-> "idle", max_attempts |-> 0, ocr |-> FALSE, attempt |-> 0,
     calls |-> 0, clicks |-> 0, rejects |-> 0, raw |-> <<>>, result |-> <<>>,
     cause |-> "none"]

\* solve_captcha has been called; ocr tells whether a classifier is present
CaptchaEntry(max_attempts, ocr) ==
    [CaptchaIdle EXCEPT !.pc = "entry", !.max_attempts = max_attempts,
                        !.ocr = ocr]

\* mutation: a missing image element costs one attempt and the loop goes on
CaptchaAfterAcquire_SkipsMissing(c, a) ==
    IF a \in {"screenshot", "src_data"}
    THEN [c EXCEPT !.pc = "classify"]
    ELSE IF a = "element_missing"
    THEN [c EXCEPT !.pc = "loop", !.cause = a]
    ELSE IF a = "src_invalid"
    THEN [c EXCEPT !.pc = "returned", !.cause = a, !.result = <<>>]
    ELSE [c EXCEPT !.pc = "raised", !.cause = a]

\* query_selector, screenshot and the base64 fallback of one iteration
CaptchaAfterAcquire(c, a) ==
    IF a \in {"screenshot", "src_data"}
    THEN [c EXCEPT !.pc = "classify"]
    ELSE IF a \in {"element_missing", "src_invalid"}
    THEN [c EXCEPT !.pc = "returned", !.cause = a, !.result = <<>>]
    ELSE [c EXCEPT !.pc = "raised", !.cause = a]

\* ocr.classification returned raw: accept and return the filtered text,
\* or reject, click the image (a fault of the click is swallowed) and sleep
CaptchaAfterClassify(c, raw) ==
    LET captcha_text == CaptchaText(raw)
    IN  IF CaptchaAccepted(captcha_text)
        THEN [c EXCEPT !.pc = "returned", !.calls = c.calls + 1, !.raw = raw,
                       !.result = captcha_text, !.cause = "accepted"]
        ELSE [c EXCEPT !.pc = "loop", !.calls = c.calls + 1, !.raw = raw,
                       !.rejects = c.rejects + 1,
                       !.clicks = c.clicks + Refreshes(c)]

\* page.wait_for_selector for the captcha image; a fault returns ""
CaptchaWaitSelector ==
    /\ cs.pc = "entry"
    /\ \E ok \in BOOLEAN :
          cs' = IF ok THEN [cs EXCEPT !.pc = "loop"]
                ELSE [cs EXCEPT !.pc = "returned", !.cause = "selector_timeout",
                                !.result = <<>>]
    /\ UNCHANGED <<schedVars, rr, ls, nd, tz, dr>>

\* the for loop has another iteration
CaptchaBegin ==
    /\ cs.pc = "loop"
    /\ CaptchaLoopContinues(cs)
    /\ cs' = [cs EXCEPT !.pc = "acquire", !.attempt = cs.attempt + 1]
    /\ UNCHANGED <<schedVars, rr, ls, nd, tz, dr>>

\* the image of this iteration is acquired, or is not
CaptchaAcquire ==
    /\ cs.pc = "acquire"
    /\ \E a \in AcquireOutcomes : cs' = CaptchaAfterAcquire(cs, a)
    /\ UNCHANGED <<schedVars, rr, ls, nd, tz, dr>>

\* `if ocr:` with a classifier: classify, then accept or refresh
CaptchaClassify ==
    /\ cs.pc = "classify"
    /\ cs.ocr
    /\ \E raw \in RawTexts : cs' = CaptchaAfterClassify(cs, raw)
    /\ UNCHANGED <<schedVars, rr, ls, nd, tz, dr>>

\* ocr.classification raises: nothing in solve_captcha catches it
CaptchaClassifyRaises ==
    /\ cs.pc = "classify"
    /\ cs.ocr
    /\ cs' = [cs EXCEPT !.pc = "raised", !.calls = cs.calls + 1,
                        !.cause = "ocr_raised"]
    /\ UNCHANGED <<schedVars, rr, ls, nd, tz, dr>>

\* `if ocr:` without a classifier: return ""
CaptchaNoOcr ==
    /\ cs.pc = "classify"
    /\ ~cs.ocr
    /\ cs' = [cs EXCEPT !.pc = "returned", !.cause = "no_ocr", !.result = <<>>]
    /\ UNCHANGED <<schedVars, rr, ls, nd, tz, dr>>

\* the for loop is over: log and return ""
CaptchaExhausted ==
    /\ cs.pc = "loop"
    /\ ~CaptchaLoopContinues(cs)
    /\ cs' = [cs EXCEPT !.pc = "returned", !.cause = "exhausted", !.result = <<>>]
    /\ UNCHANGED <<schedVars, rr, ls, nd, tz, dr>>

\* ---------------------------------------------------- notifications
\* the notification functions: send_wxpush and send_wxpusher of common.py,
\* send_notification of auto_checkin.py and auto_daily_report.py
NotifyFunctions == {"send_wxpush", "send_wxpusher", "send_notification"}

\* the two that retry
RetryingNotifiers == {"send_wxpush", "send_wxpusher"}

\* what one request_client.post meets: a response that reports success, a
\* response that does not, or a fault of post, resp.text or resp.json
SinkOutcomes == {"ok", "rejected", "raise"}

\* mutation: one of the two settings is enough
Configured_Either(a, b) == a \/ b

\* `if not base_url or not token: return`, `if not app_token or not uid:
\* return`: a and b tell whether the two settings are non-empty
Configured(a, b) == a /\ b

\* mutation: the loop runs once more than max_retries
NotifyLoopContinues_OneMore(n) == n.attempt <= n.max_retries

\* `for attempt in range(1, max_retries + 1)`: another iteration is left
NotifyLoopContinues(n) == n.attempt < n.max_retries

\* no notification call is in progress
NotifyIdle ==
    [pc |-> "idle", fn |-> "none", a |-> FALSE, b |-> FALSE, max_retries |-> 0,
     attempt |-> 0, posts |-> 0, outs |-> <<>>, waits |-> <<>>,
     delivered |-> FALSE, cause |-> "none"]

\* fn has been called with its two settings present or not
NotifyEntry(fn, a, b, max_retries) ==
    [NotifyIdle EXCEPT !.pc = "entry", !.fn = fn, !.a = a, !.b = b,
                       !.max_retries = max_retries]

\* the try block of one iteration of send_wxpush / send_wxpusher after the
\* post met outcome o: return on success, otherwise on to the sleep
NotifyAfterPost(n, o) ==
    LET posted == [n EXCEPT !.posts = n.posts + 1, !.outs = Append(n.outs, o)]
    IN  IF o = "ok"
        THEN [posted EXCEPT !.pc = "returned", !.delivered = TRUE, !.cause = "sent"]
        ELSE [posted EXCEPT !.pc = "sleep"]

\* the check of the settings at the top of each function
NotifyStart ==
    /\ nd.pc = "entry"
    /\ nd' = IF ~Configured(nd.a, nd.b)
             THEN [nd EXCEPT !.pc = "returned", !.cause = "not_configured"]
             ELSE IF nd.fn \in RetryingNotifiers
             THEN [nd EXCEPT !.pc = "loop"]
             ELSE [nd EXCEPT !.pc = "post_once"]
    /\ UNCHANGED <<schedVars, rr, ls, cs, tz, dr>>

\* send_wxpush / send_wxpusher: the next iteration posts to the sink
NotifyPost ==
    /\ nd.pc = "loop"
    /\ NotifyLoopContinues(nd)
    /\ \E o \in SinkOutcomes :
          nd' = NotifyAfterPost([nd EXCEPT !.attempt = nd.attempt + 1], o)
    /\ UNCHANGED <<schedVars, rr, ls, cs, tz, dr>>

\* send_wxpush / send_wxpusher: await asyncio.sleep(2 * attempt)
NotifySleep ==
    /\ nd.pc = "sleep"
    /\ nd' = [nd EXCEPT !.pc = "loop", !.waits = Append(nd.waits, 2 * nd.attempt)]
    /\ UNCHANGED <<schedVars, rr, ls, cs, tz, dr>>

\* send_wxpush / send_wxpusher: the loop is over, log the failure, return
NotifyExhausted ==
    /\ nd.pc = "loop"
    /\ ~NotifyLoopContinues(nd)
    /\ nd' = [nd EXCEPT !.pc = "returned", !.cause = "exhausted"]
    /\ UNCHANGED <<schedVars, rr, ls, cs, tz, dr>>

\* send_notification: one requests.post inside try/except, then return
NotifyPostOnce ==
    /\ nd.pc = "post_once"
    /\ \E o \in SinkOutcomes :
          nd' = [nd EXCEPT !.pc = "returned", !.attempt = 1, !.posts = nd.posts + 1,
                           !.outs = Append(nd.outs, o), !.delivered = (o = "ok"),
                           !.cause = IF o = "ok" THEN "sent" ELSE "failed"]
    /\ UNCHANGED <<schedVars, rr, ls, cs, tz, dr>>

\* ------------------------------------------------------ trigger times
\* BEIJING_TZ = timezone(timedelta(hours=8))
BeijingOffsetHours == 8

\* every().day: the jobs recur every 24 hours
DayMinutes == 24 * 60

\* the argument of .at() of each job, in minutes after midnight
AtMinute(name) ==
    CASE name = "checkin_am" -> 23 * 60
      [] name = "checkin_pm" -> 9 * 60
      [] name = "daily_report" -> 9 * 60 + 40

\* the wall-clock minute of the day at UTC minute utc in a zone offset
\* hours east of UTC
ZoneMinute(utc, offset) == (utc + offset * 60 + DayMinutes) % DayMinutes

\* the clock the schedule library compares .at() with: the schedule is
\* built without a tz argument, so it is datetime.now() of the host
ScheduleMinute(utc, offset) == ZoneMinute(utc, offset)

\* run_pending at UTC minute now, the previous poll having been at prev:
\* the jobs whose .at() time was passed in between on the schedule's clock
DueJobs(prev, now, offset) ==
    LET p == ScheduleMinute(prev, offset)
        c == ScheduleMinute(now, offset)
    IN  {n \in Triggers :
            IF p < c THEN p < AtMinute(n) /\ AtMinute(n) <= c
                     ELSE AtMinute(n) > p \/ AtMinute(n) <= c}

\* no clock is followed
ClockIdle == [offset |-> 0, now |-> 0, due |-> {}]

\* the poll loop of main(): the sleep ends and run_pending runs the due jobs
Poll ==
    /\ LET now == (tz.now + PollMinutes) % DayMinutes
       IN  tz' = [tz EXCEPT !.now = now, !.due = DueJobs(tz.now, now, tz.offset)]
    /\ UNCHANGED <<schedVars, rr, ls, cs, nd, dr>>

\* ------------------------------------------------------- daily report
\* what check_today_report_submitted meets: the newest record carries the
\* date datetime.now() of the host gives, it carries another date, there is
\* no record, or a selector times out or raises
CheckOutcomes == {"dated_today", "other_date", "no_record", "fault"}

\* what the check can meet when the portal holds (recorded) or does not
\* hold a report of the day: the host's date is taken without a timezone
\* and may differ from the date the portal wrote
CheckCanMeet(recorded) ==
    IF recorded THEN {"dated_today", "other_date", "fault"}
                ELSE {"other_date", "no_record", "fault"}

\* check_today_report_submitted returns True only from
\* `if report_date == today`; every other path returns False
CheckReturns(o) == o = "dated_today"

\* no invocation of the task is in progress, nothing is recorded
ReportIdle ==
    [pc |-> "idle", runs |-> 0, recorded |-> FALSE, flag |-> FALSE,
     result |-> FALSE, check |-> "none", ai_clicks |-> 0, submit_clicks |-> 0,
     total_submits |-> 0, resubmits |-> 0]

\* main() builds a new AutoDailyReport (report_already_submitted = False)
\* and, after the login, calls submit_daily_report
ReportInvoke ==
    /\ dr.pc \in {"idle", "returned"}
    /\ dr.runs < MaxReportRuns
    /\ dr' = [dr EXCEPT !.pc = "navigate", !.runs = dr.runs + 1, !.flag = FALSE,
                        !.result = FALSE, !.check = "none", !.ai_clicks = 0,
                        !.submit_clicks = 0]
    /\ UNCHANGED <<schedVars, rr, ls, cs, nd, tz>>

\* steps one to three: account list, expand, the report button; without
\* the report button submit_daily_report returns False
ReportNavigate ==
    /\ dr.pc = "navigate"
    /\ \E ok \in BOOLEAN :
          dr' = IF ok THEN [dr EXCEPT !.pc = "check"]
                      ELSE [dr EXCEPT !.pc = "returned", !.result = FALSE]
    /\ UNCHANGED <<schedVars, rr, ls, cs, nd, tz>>

\* step four: `if await self.check_today_report_submitted():` sets the flag
\* and returns True; otherwise on to the AI generation
ReportCheck ==
    /\ dr.pc = "check"
    /\ \E o \in CheckCanMeet(dr.recorded) :
          dr' = IF CheckReturns(o)
                THEN [dr EXCEPT !.pc = "returned", !.check = o, !.flag = TRUE,
                                !.result = TRUE]
                ELSE [dr EXCEPT !.pc = "generate", !.check = o]
    /\ UNCHANGED <<schedVars, rr, ls, cs, nd, tz>>

\* steps five and six: click_ai_generate_with_retry clicks the AI button
\* and waits; False ends submit_daily_report with False
ReportGenerate ==
    /\ dr.pc = "generate"
    /\ \E clicked, ok \in BOOLEAN :
          /\ ok => clicked
          /\ dr' = [dr EXCEPT !.pc = IF ok THEN "submit" ELSE "returned",
                              !.ai_clicks = IF clicked THEN 1 ELSE 0,
                              !.result = FALSE]
    /\ UNCHANGED <<schedVars, rr, ls, cs, nd, tz>>

\* step seven: the submit button is clicked and submit_daily_report returns
\* True with or without the success toast (the portal then holds a report of
\* the day if it took the click: accepted); a fault of the selector or of
\* the click returns False
ReportSubmit ==
    /\ dr.pc = "submit"
    /\ \E clicked, accepted \in BOOLEAN :
          /\ accepted => clicked
          /\ dr' = [dr EXCEPT !.pc = "returned",
                              !.result = clicked,
                              !.submit_clicks = IF clicked THEN 1 ELSE 0,
                              !.total_submits = @ + (IF clicked THEN 1 ELSE 0),
                              !.resubmits = @ + (IF clicked /\ dr.recorded THEN 1 ELSE 0),
                              !.recorded = dr.recorded \/ accepted]
    /\ UNCHANGED <<schedVars, rr, ls, cs, nd, tz>>

\* ------------------------------------------------------ specifications
Init ==
    /\ alive = TRUE
    /\ job_lock = FALSE
    /\ creds \in BOOLEAN
    /\ firings = <<>>
    /\ rr = RetryIdle
    /\ ls = LoginIdle
    /\ cs = CaptchaIdle
    /\ nd = NotifyIdle
    /\ tz = ClockIdle
    /\ dr = ReportIdle

Next ==
    \/ \E name \in Triggers : Fire(name)
    \/ \E f \in 1..MaxFirings : RunGuardedSkip(f)
    \/ \E f \in 1..MaxFirings : RunGuardedFault(f)
    \/ \E f \in 1..MaxFirings : RunGuardedNoop(f)
    \/ \E f \in 1..MaxFirings : RunGuardedEnter(f)
    \/ \E f \in 1..MaxFirings : Launch(f)
    \/ \E f \in 1..MaxFirings : LoginGoto(f)
    \/ \E f \in 1..MaxFirings : LoginTry(f)
    \/ \E f \in 1..MaxFirings : LoginCheck(f)
    \/ \E f \in 1..MaxFirings : LoginWait(f)
    \/ \E f \in 1..MaxFirings : Act(f)
    \/ \E f \in 1..MaxFirings : Close(f)
    \/ \E f \in 1..MaxFirings : FinishReturn(f)
    \/ \E f \in 1..MaxFirings : FinishExit(f)

Spec == Init /\ [][Next]_vars

\* a step of the task body of firing f; the event loop resumes a coroutine
\* whose awaited operation has completed
BodyStep(f) ==
    \/ Launch(f) \/ LoginGoto(f) \/ LoginTry(f) \/ LoginCheck(f)
    \/ LoginWait(f) \/ Act(f) \/ Close(f) \/ FinishReturn(f) \/ FinishExit(f)

\* a queued run_guarded task is started by the event loop
StartStep(f) ==
    \/ RunGuardedSkip(f) \/ RunGuardedFault(f)
    \/ RunGuardedNoop(f) \/ RunGuardedEnter(f)

FairSpec ==
    /\ Spec
    /\ \A f \in 1..MaxFirings : WF_vars(BodyStep(f)) /\ WF_vars(StartStep(f))

\* a call of run_with_retries, its arguments drawn from the bounded sets
RetryInit ==
    /\ alive = TRUE
    /\ job_lock = FALSE
    /\ creds = TRUE
    /\ firings = <<>>
    /\ rr \in {RetryEntry(m, d, h) : m \in -1..MaxRetryAttempts,
                                     d \in -1..MaxDelaySeconds,
                                     h \in -1..MaxFactorHalves}
    /\ ls = LoginIdle
    /\ cs = CaptchaIdle
    /\ nd = NotifyIdle
    /\ tz = ClockIdle
    /\ dr = ReportIdle

RetryNext == RetryStart \/ RetryInvoke \/ RetrySleep

RetrySpec == RetryInit /\ [][RetryNext]_vars

\* a call of login_with_retry, its arguments drawn from the bounded sets
LoginInit ==
    /\ alive = TRUE
    /\ job_lock = FALSE
    /\ creds = TRUE
    /\ firings = <<>>
    /\ rr = RetryIdle
    /\ ls \in {LoginEntry(m, t) : m \in 0..MaxLoginAttempts,
                                  t \in 0..MaxLoginTimeout}
    /\ cs = CaptchaIdle
    /\ nd = NotifyIdle
    /\ tz = ClockIdle
    /\ dr = ReportIdle

LoginNext ==
    \/ LoginWithRetryGoto
    \/ LoginWithRetryBegin
    \/ LoginWithRetryAttempt
    \/ LoginWithRetryExhausted

LoginSpec == LoginInit /\ [][LoginNext]_vars

\* a call of solve_captcha, its arguments drawn from the bounded sets
CaptchaInit ==
    /\ alive = TRUE
    /\ job_lock = FALSE
    /\ creds = TRUE
    /\ firings = <<>>
    /\ rr = RetryIdle
    /\ ls = LoginIdle
    /\ cs \in {CaptchaEntry(m, o) : m \in 0..MaxCaptchaAttempts, o \in BOOLEAN}
    /\ nd = NotifyIdle
    /\ tz = ClockIdle
    /\ dr = ReportIdle

CaptchaNext ==
    \/ CaptchaWaitSelector
    \/ CaptchaBegin
    \/ CaptchaAcquire
    \/ CaptchaClassify
    \/ CaptchaClassifyRaises
    \/ CaptchaNoOcr
    \/ CaptchaExhausted

CaptchaSpec == CaptchaInit /\ [][CaptchaNext]_vars

\* a call of a notification function, its arguments and settings drawn
\* from the bounded sets (send_notification has no max_retries: one post)
NotifyInit ==
    /\ alive = TRUE
    /\ job_lock = FALSE
    /\ creds = TRUE
    /\ firings = <<>>
    /\ rr = RetryIdle
    /\ ls = LoginIdle
    /\ cs = CaptchaIdle
    /\ nd \in {NotifyEntry(fn, a, b, m) :
                  fn \in RetryingNotifiers, a \in BOOLEAN, b \in BOOLEAN,
                  m \in 0..MaxNotifyRetries}
             \cup {NotifyEntry("send_notification", a, b, 1) :
                  a \in BOOLEAN, b \in BOOLEAN}
    /\ tz = ClockIdle
    /\ dr = ReportIdle

NotifyNext ==
    \/ NotifyStart
    \/ NotifyPost
    \/ NotifySleep
    \/ NotifyExhausted
    \/ NotifyPostOnce

NotifySpec == NotifyInit /\ [][NotifyNext]_vars

\* the poll loop on a host whose timezone is offset hours from UTC
ClockInit ==
    /\ alive = TRUE
    /\ job_lock = FALSE
    /\ creds = TRUE
    /\ firings = <<>>
    /\ rr = RetryIdle
    /\ ls = LoginIdle
    /\ cs = CaptchaIdle
    /\ nd = NotifyIdle
    /\ tz \in {[ClockIdle EXCEPT !.offset = o] : o \in (-MaxHostOffset)..MaxHostOffset}
    /\ dr = ReportIdle

ClockNext == Poll

ClockSpec == ClockInit /\ [][ClockNext]_vars

\* invocations of the daily-report task on one day, the portal holding a
\* report of the day already or not
ReportInit ==
    /\ alive = TRUE
    /\ job_lock = FALSE
    /\ creds = TRUE
    /\ firings = <<>>
    /\ rr = RetryIdle
    /\ ls = LoginIdle
    /\ cs = CaptchaIdle
    /\ nd = NotifyIdle
    /\ tz = ClockIdle
    /\ dr \in {[ReportIdle EXCEPT !.recorded = r] : r \in BOOLEAN}

ReportNext ==
    \/ ReportInvoke
    \/ ReportNavigate
    \/ ReportCheck
    \/ ReportGenerate
    \/ ReportSubmit

ReportSpec == ReportInit /\ [][ReportNext]_vars

\* ------------------------------------------------------ scheduler claims

\* C1: at most one bound task body (the coro_func awaited inside
\* run_guarded) is executing at any instant, and the lock is held exactly
\* while one is.
C1_GuardExclusivity ==
    /\ Cardinality(Running) <= 1
    /\ Running # {} => job_lock

\* C1 witness: two firings overlapped; one is inside its body, the other
\* was started meanwhile and did not enter.
C1_Witness ==
    \E f, g \in 1..Len(firings) :
        /\ InBody(f) /\ firings[f].pc = "login_try"
        /\ g > f /\ firings[g].pc = "skipped"

\* C2: the guard is never left held by a run_guarded that has finished:
\* whenever job_lock is held some firing is still inside its task body,
\* whichever way the earlier firings ended (return, failure, fault, exit).
C2_GuardReleasedOnExit ==
    job_lock => \E f \in 1..Len(firings) : InBody(f)

\* C2 witness: a firing ended with a fault caught by run_guarded and a
\* later firing acquired the guard and is running its task.
C2_Witness ==
    \E f, g \in 1..Len(firings) :
        /\ firings[f].out = "fault"
        /\ g > f /\ InBody(g) /\ job_lock

\* C3: a firing started while the guard is held becomes skipped in that
\* step, which changes neither the guard nor any other firing; a skipped
\* firing never changes again (its task body never runs later).
C3_SkippedOverlap ==
    [][\A f \in 1..Len(firings) :
          /\ (firings[f].pc = "queued" /\ firings'[f].pc # "queued" /\ job_lock)
                => /\ firings'[f].pc = "skipped"
                   /\ job_lock' = job_lock
                   /\ \A g \in 1..Len(firings) : g # f => firings'[g] = firings[g]
          /\ firings[f].pc = "skipped" => firings'[f] = firings[f]]_vars

\* C3 witness: a firing was skipped, the task that held the guard then
\* finished and the guard is free, and the skipped firing is still skipped.
C3_Witness ==
    \E f, g \in 1..Len(firings) :
        /\ g > f /\ firings[g].pc = "skipped"
        /\ firings[f].pc = "done" /\ firings[f].out \in {"ok", "failed"}
        /\ ~job_lock

\* C4: every firing that acquires the guard eventually releases it.
C4_GuardEventuallyReleased == job_lock ~> ~job_lock

\* C21: the way main() ends depends on the task and on the result of run()
\* only: whatever send_notification meets (settings missing, success, a
\* rejected post, a fault), the outcome of the firing is the same, and the
\* process has ended exactly when a firing ended in sys.exit.
C21_DeliveryNeverFlipsOutcome ==
    /\ \A f \in 1..Len(firings) :
          firings[f].pc = "notify" =>
              \A s1, s2 \in NotifyResults :
                  MainOutcome(BoundTask(firings[f].name), firings[f].success, s1)
                    = MainOutcome(BoundTask(firings[f].name), firings[f].success, s2)
    /\ \A f, g \in 1..Len(firings) :
          ( /\ firings[f].sink # "none" /\ firings[g].sink # "none"
            /\ BoundTask(firings[f].name) = BoundTask(firings[g].name)
            /\ firings[f].success = firings[g].success )
          => firings[f].out = firings[g].out
    /\ \A f \in 1..Len(firings) :
          firings[f].sink # "none" =>
              firings[f].out = IF firings[f].success THEN "ok"
                               ELSE IF BoundTask(firings[f].name) = "run_daily_report"
                               THEN "exit" ELSE "failed"
    /\ ~alive <=> \E f \in 1..Len(firings) : firings[f].out = "exit"

\* C21 witness: two firings of the check-in task both failed; the
\* notification of one was delivered, the post of the other raised.
C21_Witness ==
    \E f, g \in 1..Len(firings) :
        /\ firings[f].pc = "done" /\ firings[g].pc = "done"
        /\ BoundTask(firings[f].name) = "run_checkin"
        /\ BoundTask(firings[g].name) = "run_checkin"
        /\ ~firings[f].success /\ ~firings[g].success
        /\ firings[f].sink = "ok" /\ firings[g].sink = "raise"

\* C22: a firing that ended in failure leaves the scheduler process running.
C22_SchedulerSurvivesFailure ==
    \A f \in 1..Len(firings) :
        (firings[f].pc = "done" /\ firings[f].out \in {"failed", "fault", "exit"})
            => alive

C24_OneTaskPerCycle ==
    \A f, g \in 1..Len(firings) :
        (f # g /\ firings[f].cycle = firings[g].cycle)
            => ~(firings[f].events # <<>> /\ firings[g].events # <<>>)

\* C25: the events of one firing follow the order acquire, run() finished,
\* notification, release; a notification has the end of run() before it and
\* the release after it, and the guard is held from acquire to release.
C25_FiringOrder ==
    \A f \in 1..Len(firings) :
        LET ev == firings[f].events
            full == <<"acquire", "finished", "notify", "release">>
        IN  /\ \/ ev = <<"acquire", "release">>
               \/ /\ Len(ev) <= 4
                  /\ ev = SubSeq(full, 1, Len(ev))
                  /\ Len(ev) # 3
            /\ firings[f].sink # "none" => ev = full
            /\ (ev # <<>> /\ ev[Len(ev)] # "release") => (job_lock /\ InBody(f))
            /\ (ev # <<>> /\ ev[Len(ev)] = "release") => firings[f].pc = "done"

\* C25 witness: a firing went through all four events and its notification
\* was delivered.
C25_Witness ==
    \E f \in 1..Len(firings) :
        /\ firings[f].events = <<"acquire", "finished", "notify", "release">>
        /\ firings[f].sink = "ok" /\ firings[f].success

\* C31: run_guarded never waits for the guard. Every step that starts a
\* queued firing settles it at once: with the lock held the firing is
\* skipped and the lock is untouched, with the lock free the firing has
\* acquired it in that step; no firing is ever a waiter of the lock, and no
\* firing stays between the check and the acquisition.
C31_NeverWaitsForGuard ==
    [][\A f \in 1..Len(firings) :
          /\ firings'[f].pc # "waiting"
          /\ (firings[f].pc = "queued" /\ firings'[f].pc # "queued") =>
                /\ job_lock => (firings'[f].pc = "skipped" /\ job_lock' = job_lock
                                /\ firings'[f].events = <<>>)
                /\ ~job_lock => /\ firings'[f].pc \in {"launch", "done"}
                                /\ firings'[f].events # <<>>
                                /\ firings'[f].events[1] = "acquire"
                                /\ job_lock' = (firings'[f].pc = "launch")]_vars

\* C31 witness: two firings of one poll cycle have started; the first
\* acquired the guard and is in its task, the second was skipped.
C31_Witness ==
    \E f, g \in 1..Len(firings) :
        /\ f < g /\ firings[f].cycle = firings[g].cycle
        /\ firings[f].pc = "launch" /\ firings[f].events = <<"acquire">>
        /\ firings[g].pc = "skipped" /\ job_lock

\* C32: auto_checkin.main takes the Beijing hours 6 to 11 as the morning
\* check-in and 12 to 23 as the evening check-in; a firing at an hour from
\* 0 to 5 ends without a browser, without a login pass and without a
\* notification, and a check-in that entered run() was classified morning
\* or evening.
C32_CheckinWindow ==
    /\ \A hour \in 0..23 :
          CheckinType(hour) = IF hour <= 5 THEN "outside"
                              ELSE IF hour <= 11 THEN "morning" ELSE "evening"
    /\ \A f \in 1..Len(firings) :
          /\ firings[f].kind = "outside" =>
                /\ firings[f].pc = "done" /\ firings[f].out = "noop"
                /\ ~firings[f].browser /\ firings[f].sink = "none"
                /\ firings[f].events = <<"acquire", "release">>
          /\ (BoundTask(firings[f].name) = "run_checkin" /\ InBody(f))
                => firings[f].kind \in {"morning", "evening"}

\* C32 witness: with the credentials set a check-in firing met an hour
\* outside the window and has ended, and a later firing is in its task.
C32_Witness ==
    \E f, g \in 1..Len(firings) :
        /\ creds /\ firings[f].kind = "outside" /\ firings[f].pc = "done"
        /\ f < g /\ firings[g].kind = "evening" /\ firings[g].pc = "login_try"

\* ---------------------------------------------- run_with_retries claims

AllFailed(outs) == \A i \in 1..Len(outs) : outs[i] # "true"

NonDecreasing(seq) == \A i, j \in 1..Len(seq) : i < j => seq[i] <= seq[j]

\* C5: with max_attempts = N >= 1 and a task that fails on every
\* invocation, run_with_retries returns (False, N) after exactly N
\* invocations, and never invokes the task more than N times.
C5_RetryExhaustion ==
    rr.max_attempts >= 1 =>
        /\ rr.calls <= rr.max_attempts
        /\ (rr.pc = "returned" /\ AllFailed(rr.outs)) =>
               /\ rr.result = <<FALSE, rr.max_attempts>>
               /\ rr.calls = rr.max_attempts
               /\ Len(rr.outs) = rr.max_attempts

\* C5 witness: three attempts were allowed, all three failed, and the call
\* has returned.
C5_Witness ==
    /\ rr.pc = "returned" /\ rr.max_attempts = 3
    /\ rr.outs = <<"false", "false", "false">>

\* C6: the first success of the task, on attempt k, ends the call at once
\* with (True, k): the successful invocation is the last one and the k-th.
C6_RetryEarlySuccess ==
    \A k \in 1..Len(rr.outs) :
        rr.outs[k] = "true" =>
            /\ k = Len(rr.outs)
            /\ k <= rr.attempts
            /\ rr.pc = "returned"
            /\ rr.result = <<TRUE, k>>
            /\ rr.calls = k

\* C6 witness: the task failed once and succeeded on attempt 2 of 3.
C6_Witness ==
    /\ rr.pc = "returned" /\ rr.max_attempts = 3
    /\ rr.outs = <<"false", "true">>

\* C7: a task invocation that raises leaves run_with_retries in the state
\* an invocation that returned False would have left it in (same position,
\* attempt, invocation count, waits and result), and the fault never
\* leaves run_with_retries.
C7_FaultIsFailure ==
    /\ rr.pc # "raised"
    /\ rr.pc = "call" =>
          [RetryAfterCall(rr, "raise") EXCEPT !.outs = <<>>]
            = [RetryAfterCall(rr, "false") EXCEPT !.outs = <<>>]
    /\ (rr.pc = "returned" /\ AllFailed(rr.outs)) =>
          /\ rr.result = <<FALSE, rr.attempts>>
          /\ rr.calls = rr.attempts
          /\ Len(rr.waits) = rr.attempts - 1

\* C7 witness: the task raised on attempt 1 and on attempt 2 of 2; one wait
\* separated them and the call returned (False, 2).
C7_Witness ==
    /\ rr.pc = "returned"
    /\ rr.outs = <<"raise", "raise">>
    /\ rr.result = <<FALSE, 2>>
    /\ Len(rr.waits) = 1

\* C8: every wait of run_with_retries is at least 1, and with
\* backoff_factor >= 1 the waits are non-decreasing in the attempt index.
C8_BackoffFloorAndMonotone ==
    /\ \A i \in 1..Len(rr.waits) :
          /\ rr.waits[i] >= 1
          /\ rr.waits[i] = WaitSeconds(rr.delay_seconds, rr.factor_halves, i)
    /\ rr.factor_halves >= 2 => NonDecreasing(rr.waits)

\* C8 witness: a growing backoff has been computed twice (delay 2,
\* factor 1.5: waits 2 and 3).
C8_Witness ==
    /\ rr.delay_seconds = 2 /\ rr.factor_halves = 3
    /\ rr.waits = <<2, 3>>

\* C9: a malformed configuration behaves as the normalized one
\* (delay >= 1, factor >= 1.0, attempts >= 1): the waits are those of the
\* normalized configuration, they are non-decreasing, and with
\* max_attempts < 1 the task is invoked exactly once.
C9_ConfigNormalized ==
    /\ \A i \in 1..Len(rr.waits) :
          rr.waits[i] = WaitSeconds(Max(1, rr.delay_seconds),
                                    Max(2, rr.factor_halves), i)
    /\ NonDecreasing(rr.waits)
    /\ (rr.max_attempts < 1 /\ rr.pc = "returned") => rr.calls = 1

\* C28: in run_with_retries one wait of WaitSeconds(attempt) follows every
\* invocation but the last: before invocation k there have been k - 1
\* waits, a run that succeeds on attempt k has made k - 1 waits, and an
\* exhausted run of N attempts has made N - 1 waits.
C28_OneWaitBetweenInvocations ==
    /\ rr.pc = "call" => (Len(rr.waits) = rr.calls /\ rr.calls = rr.attempt - 1)
    /\ rr.pc = "sleep" => (Len(rr.waits) = rr.calls /\ rr.calls = rr.attempt)
    /\ rr.pc = "returned" =>
          /\ Len(rr.waits) = rr.calls - 1
          /\ rr.result[1] => Len(rr.waits) = rr.result[2] - 1
          /\ ~rr.result[1] => Len(rr.waits) = rr.attempts - 1
    /\ \A k \in 1..Len(rr.waits) :
          rr.waits[k] = WaitSeconds(rr.delay_seconds, rr.factor_halves, k)

\* C28 witness: three invocations failed, two waits were made, and the run
\* has returned failure.
C28_Witness ==
    /\ rr.pc = "returned" /\ ~rr.result[1]
    /\ rr.calls = 3 /\ Len(rr.waits) = 2
    /\ rr.delay_seconds = 2 /\ rr.factor_halves = 4

\* ---------------------------------------------- login_with_retry claims

\* C10: an attempt begins only while fewer than max_attempts attempts have
\* been begun and the elapsed time is below total_timeout, so at most
\* max_attempts attempts begin; when either budget is used up at the loop
\* test, the next step is the return of False.
C10_LoginDualBound ==
    [][/\ ls'.attempt # ls.attempt =>
            /\ ls'.attempt = ls.attempt + 1
            /\ ls.attempt < ls.max_attempts
            /\ ls.elapsed < ls.total_timeout
       /\ ls'.attempt <= ls.max_attempts
       /\ (ls.pc = "loop" /\ (ls.attempt >= ls.max_attempts
                               \/ ls.elapsed >= ls.total_timeout)) =>
            (ls'.pc = "returned" /\ ls'.result = FALSE)
       /\ (ls'.pc = "returned" /\ ls'.last # "url_changed") =>
            ls'.result = FALSE]_vars

\* C10 witness: the call returned False after the time budget ran out with
\* attempts still left, and at least one attempt had been made.
C10_Witness ==
    /\ ls.pc = "returned" /\ ~ls.result
    /\ ls.attempt >= 1 /\ ls.attempt < ls.max_attempts
    /\ ls.elapsed >= ls.total_timeout


Min(a, b) == IF a <= b THEN a ELSE b

\* the least integer not below t / d, for d > 0
CeilDiv(t, d) == (t + d - 1) \div d

\* C11: when every pass so far left the location unchanged and took the
\* same time d, at most min(max_attempts, ceil(total_timeout / d)) attempts
\* have begun and the call does not return True; no attempt begins once
\* total_timeout has elapsed.
C11_TimeBudgetCutsAttempts ==
    [][/\ (ls'.same_d >= 1 /\ ls'.all_same) =>
            /\ ls'.attempt <= Min(ls'.max_attempts,
                                  CeilDiv(ls'.total_timeout, ls'.same_d))
            /\ ls'.pc = "returned" => ~ls'.result
       /\ ls.elapsed >= ls.total_timeout => ls'.attempt = ls.attempt]_vars

\* C11 witness: three attempts were allowed; two passes of 2 units each left
\* the location unchanged, the budget of 4 units ran out and the call
\* returned False after 2 = ceil(4 / 2) attempts.
C11_Witness ==
    /\ ls.pc = "returned" /\ ~ls.result
    /\ ls.max_attempts = 3 /\ ls.total_timeout = 4
    /\ ls.all_same /\ ls.same_d = 2 /\ ls.attempt = 2

\* C12: after a fault of the initial navigation login_with_retry has
\* returned False with one navigation made, no attempt begun, no
\* credentials filled and no captcha solved.
C12_NavigationFaultIsFinal ==
    ls.last = "goto_fault" =>
        /\ ls.pc = "returned" /\ ~ls.result
        /\ ls.gotos = 1 /\ ls.attempt = 0
        /\ ls.fills = 0 /\ ls.solves = 0 /\ ls.submits = 0 /\ ls.reloads = 0

\* C12 witness: the navigation faulted while attempts and time were
\* available.
C12_Witness ==
    /\ ls.last = "goto_fault" /\ ls.pc = "returned"
    /\ ls.max_attempts = 3 /\ ls.total_timeout = 4

\* C13: login_with_retry returns True exactly when the last pass submitted
\* the form and page.url differed from login_url; a pass that ends with
\* the location equal to login_url goes back to the loop test, and the
\* loop test begins another attempt whenever both budgets permit.
C13_LoginVerdict ==
    [][/\ ls'.pc = "returned" =>
            (ls'.result <=> (ls'.last = "url_changed" /\ ls'.url # LoginUrl
                             /\ ls'.submits >= 1))
       /\ (ls.pc = "attempt" /\ ls'.pc # "attempt" /\ ls'.url = LoginUrl) =>
            (ls'.pc = "loop" /\ ~ls'.result)
       /\ (ls.pc = "loop" /\ ls.attempt < ls.max_attempts
                          /\ ls.elapsed < ls.total_timeout) =>
            (ls'.pc = "attempt" /\ ls'.attempt = ls.attempt + 1)]_vars

\* C13 witness: the first pass left the location unchanged, a second pass
\* changed it and the call returned True.
C13_Witness ==
    /\ ls.pc = "returned" /\ ls.result
    /\ ls.attempt = 2 /\ ls.submits = 2 /\ ls.url # LoginUrl

\* C14: a fault inside a pass never leaves login_with_retry: the pass ends
\* at the loop test with its attempt consumed, the loop test begins the
\* next attempt when the budgets permit, and the call ends only by
\* returning a boolean, False after a fault.
C14_NoFaultPropagates ==
    [][/\ ls'.pc \in {"entry", "loop", "attempt", "returned"}
       /\ ls'.result \in BOOLEAN
       /\ ls'.faults <= ls'.attempt
       /\ (ls.pc = "attempt" /\ ls'.faults = ls.faults + 1) =>
            (ls'.pc = "loop" /\ ls'.attempt = ls.attempt)
       /\ (ls.pc = "loop" /\ ls.last = "fault" /\ ls.attempt < ls.max_attempts
                          /\ ls.elapsed < ls.total_timeout) =>
            (ls'.pc = "attempt" /\ ls'.attempt = ls.attempt + 1)
       /\ (ls'.pc = "returned" /\ ls'.last \in {"fault", "goto_fault"}) =>
            ~ls'.result]_vars

\* C14 witness: a pass faulted, a later pass logged in and the call
\* returned True.
C14_Witness ==
    /\ ls.pc = "returned" /\ ls.result
    /\ ls.faults >= 1 /\ ls.attempt >= 2

\* C26: a pass of login_with_retry in which solve_captcha returned ""
\* reloads the page once and submits nothing, keeps the attempt it has
\* counted, returns no verdict and goes back to the loop test; the next
\* pass begins when both budgets permit.
C26_EmptyCaptchaReloads ==
    [][(ls.pc = "attempt" /\ ls'.pc # "attempt" /\ ls'.last = "captcha_empty")
          => /\ ls'.reloads = ls.reloads + 1
             /\ ls'.submits = ls.submits
             /\ ls'.fills = ls.fills + 1 /\ ls'.solves = ls.solves + 1
             /\ ls'.attempt = ls.attempt /\ ls.attempt >= 1
             /\ ls'.pc = "loop" /\ ls'.result = FALSE
             /\ ls'.url = LoginUrl]_vars

\* C26 witness: the first pass met an empty captcha and reloaded without
\* submitting, and the second pass has begun.
C26_Witness ==
    /\ ls.pc = "attempt" /\ ls.attempt = 2
    /\ ls.last = "captcha_empty"
    /\ ls.reloads = 1 /\ ls.submits = 0 /\ ls.faults = 0

\* C27: the time budget of the attempt loop runs from the completion of
\* the initial navigation: a call whose navigation succeeded returns
\* failure only when the attempts are used up or total_timeout has passed
\* since the page was loaded.
C27_BudgetFromPageLoaded ==
    (ls.pc = "returned" /\ ~ls.result /\ ls.last # "goto_fault")
        => \/ ls.attempt >= ls.max_attempts
           \/ ls.elapsed - ls.loaded_at >= ls.total_timeout

\* -------------------------------------------------- solve_captcha claims

\* C15: a non-empty value returned by solve_captcha has exactly 4
\* characters, all digits, and is the digits of the classifier's last text
\* in their order; a text whose digits are not 4 is never returned.
C15_ChallengeValidation ==
    /\ (cs.pc = "returned" /\ cs.result # <<>>) =>
          /\ Len(cs.result) = 4
          /\ \A i \in 1..Len(cs.result) : IsDigit(cs.result[i])
          /\ cs.result = SelectSeq(cs.raw, IsDigit)
    /\ (cs.calls >= 1 /\ Len(SelectSeq(cs.raw, IsDigit)) # 4) => cs.result = <<>>

\* C15 witness: the classifier wrote five characters, four of them digits,
\* and solve_captcha returned the four digits.
C15_Witness ==
    /\ cs.pc = "returned"
    /\ cs.raw = <<"1", "a", "7", "7", "1">>
    /\ cs.result = <<"1", "7", "7", "1">>

\* C16: the image is clicked once for every rejected classifier text and
\* never otherwise; a text accepted on the first attempt is returned with
\* no click.
C16_RefreshOnRejection ==
    /\ cs.clicks = cs.rejects
    /\ cs.rejects <= cs.calls
    /\ (cs.pc = "returned" /\ cs.cause = "accepted") => cs.clicks = cs.calls - 1
    /\ (cs.pc = "returned" /\ cs.cause = "accepted" /\ cs.calls = 1) =>
          (cs.clicks = 0 /\ cs.result # <<>>)

\* C16 witness: all three texts were rejected, the third as well was
\* followed by a click, and solve_captcha returned "".
C16_Witness ==
    /\ cs.pc = "returned" /\ cs.cause = "exhausted"
    /\ cs.max_attempts = 3 /\ cs.rejects = 3 /\ cs.clicks = 3

\* C17: the classifier is called at most max_attempts times; an accepted
\* text ends the call at once; when max_attempts texts were rejected the
\* call returns "".
C17_ClassifierCallsBounded ==
    /\ cs.calls <= cs.max_attempts
    /\ cs.calls <= cs.attempt
    /\ cs.cause = "accepted" =>
          (cs.pc = "returned" /\ cs.result # <<>> /\ cs.rejects = cs.calls - 1)
    /\ (cs.pc = "returned" /\ cs.cause = "exhausted") =>
          (cs.result = <<>> /\ cs.rejects = cs.max_attempts
                            /\ cs.calls = cs.max_attempts)
    /\ (cs.pc = "returned" /\ cs.rejects = cs.max_attempts) => cs.result = <<>>

\* C17 witness: two texts were rejected and the third, the last allowed,
\* was accepted.
C17_Witness ==
    /\ cs.pc = "returned" /\ cs.cause = "accepted"
    /\ cs.max_attempts = 3 /\ cs.calls = 3 /\ cs.rejects = 2

\* C18: when the selector wait fails, the image element is missing, the
\* screenshot fails with no data-URI src, or no classifier is present,
\* solve_captcha returns "" in that step: no classifier call, no click and
\* no further attempt follows, and nothing is raised.
C18_AcquisitionFailureReturnsEmpty ==
    [][/\ cs'.cause \in AbortCauses => (cs'.pc = "returned" /\ cs'.result = <<>>)
       /\ (cs.cause \notin AbortCauses /\ cs'.cause \in AbortCauses) =>
             /\ cs'.calls = cs.calls
             /\ cs'.clicks = cs.clicks
             /\ cs'.attempt = cs.attempt
       /\ cs.pc = "returned" => cs' = cs]_vars

\* C18 witness: the first text was rejected and in the second attempt the
\* image element was missing; "" was returned with one attempt unused.
C18_Witness ==
    /\ cs.pc = "returned" /\ cs.cause = "element_missing"
    /\ cs.max_attempts = 3 /\ cs.attempt = 2 /\ cs.calls = 1 /\ cs.clicks = 1

\* --------------------------------------------------- notification claims

\* C19: a notification function called with one of its two settings missing
\* never posts to the request client and never sleeps; it returns, and
\* raises nothing.
C19_NotificationSilence ==
    (nd.pc # "idle" /\ ~(nd.a /\ nd.b)) =>
        /\ nd.posts = 0 /\ nd.outs = <<>>
        /\ nd.waits = <<>>
        /\ nd.pc \in {"entry", "returned"}
        /\ nd.pc = "returned" => (nd.cause = "not_configured" /\ ~nd.delivered)

\* C19 witness: send_wxpush was called with the URL set and the token
\* missing, and has returned.
C19_Witness ==
    /\ nd.fn = "send_wxpush" /\ nd.a /\ ~nd.b
    /\ nd.pc = "returned" /\ nd.max_retries = 3

\* C20: send_wxpush and send_wxpusher post at most max_retries times, a
\* successful post is the last one, a post that raises is followed by what
\* follows a failed response, and after max_retries failures the call
\* returns.
C20_BoundedDelivery ==
    nd.fn \in RetryingNotifiers =>
        /\ nd.posts <= nd.max_retries
        /\ nd.pc \in {"entry", "loop", "sleep", "returned"}
        /\ \A k \in 1..Len(nd.outs) :
              nd.outs[k] = "ok" =>
                  (k = Len(nd.outs) /\ nd.pc = "returned" /\ nd.delivered)
        /\ (nd.pc = "loop" /\ nd.attempt < nd.max_retries) =>
              [NotifyAfterPost(nd, "raise") EXCEPT !.outs = <<>>]
                = [NotifyAfterPost(nd, "rejected") EXCEPT !.outs = <<>>]
        /\ (nd.pc = "returned" /\ nd.cause = "exhausted") =>
              (nd.posts = nd.max_retries /\ ~nd.delivered)
        /\ (nd.pc = "loop" /\ nd.posts = nd.max_retries) => nd.attempt = nd.max_retries

\* C20 witness: send_wxpusher with max_retries = 3 met a fault, a failed
\* response and a fault, and has returned without delivering.
C20_Witness ==
    /\ nd.fn = "send_wxpusher" /\ nd.max_retries = 3
    /\ nd.outs = <<"raise", "rejected", "raise">>
    /\ nd.pc = "returned" /\ nd.cause = "exhausted"

\* ---------------------------------------------------- trigger time claims

\* the Beijing wall-clock time each trigger is meant for, in minutes after
\* midnight: 07:00, 17:00 and 17:40
BeijingMinute(name) ==
    CASE name = "checkin_am" -> 7 * 60
      [] name = "checkin_pm" -> 17 * 60
      [] name = "daily_report" -> 17 * 60 + 40

\* C29: whatever the host's timezone, a job runs at the poll that follows
\* its Beijing time: when run_pending runs a job, the Beijing clock is less
\* than one poll interval past 07:00, 17:00 or 17:40 respectively.
C29_TriggersAtBeijingTimes ==
    \A n \in tz.due :
        (ZoneMinute(tz.now, BeijingOffsetHours) - BeijingMinute(n) + DayMinutes)
            % DayMinutes < PollMinutes

\* ---------------------------------------------------- daily report claims

\* C30: once the portal holds a report of the day, no invocation of the
\* task clicks the submit button again.
C30_AtMostOneSubmission == dr.resubmits = 0

====
